---- MODULE Spec2Model ----
(***************************************************************************)
(* Hash-linked header chain of src/c2_blockchain/p1_header_chain.rs:       *)
(* Header::genesis, Header::child, Header::verify_sub_chain, the two chain *)
(* builders and the tests that drive them.                                 *)
(*                                                                         *)
(* The functions are pure.  The state is one call: the receiver `self`,    *)
(* the slice `chain`, the position `pc` (which call has ended), the headers *)
(* returned (`out`) and how verify_sub_chain ended (`ret`: the boolean it  *)
(* returned, or a panic).                                                  *)
(*                                                                         *)
(* u64 heights are kept to HeightBits bits; arithmetic on them wraps       *)
(* modulo 2^HeightBits in a build without overflow checks and panics in a  *)
(* build with overflow checks.                                             *)
(***************************************************************************)
EXTENDS Integers, Sequences, FiniteSets, TLC

VARIABLES self, chain, pc, out, ret

vars == <<self, chain, pc, out, ret>>

\* Width of the height field in the model (u64 in the source).
HeightBits == 3

\* Longest slice handed to verify_sub_chain.
MaxLen == 3

Modulus == 2 ^ HeightBits

U64Max == Modulus - 1

\* The unit type () of the three placeholder fields.
Unit == <<>>

\* struct Header
Header(parent, height) ==
    [parent |-> parent, height |-> height,
     extrinsics_root |-> Unit, state_root |-> Unit, consensus_digest |-> Unit]

\* Hash::default(), the parent of the genesis header.
HashDefault == 0

\* crate::hash: a deterministic digest of the header's fields that differs
\* whenever the linkage fields differ, and is never the sentinel.
hash(h) == 1 + h.parent * Modulus + h.height

\* Header::genesis
genesis == Header(HashDefault, 0)

\* Header::child: reads Self::genesis(), not self.
child(h) ==
    LET parent_block == genesis
        parent == hash(parent_block)
        height == parent_block.height + 1
    IN  [parent_block EXCEPT !.parent = parent, !.height = height]

\* Result of a call that returns bool, or unwinds.
Returned(b) == [panicked |-> FALSE, check |-> b]
Panicked == [panicked |-> TRUE, check |-> FALSE]

\* u64 subtraction a - b as the build performs it.
wrapping_sub(a, b) == (a - b + Modulus) % Modulus

\* chain[0].height - 1 is evaluated (the left operand of && held) and
\* underflows.
sub_overflows(h, c) ==
    /\ Len(c) > 0
    /\ hash(h) = c[1].parent
    /\ c[1].height = 0

\* The for loop of verify_sub_chain over i in 0..chain.len()-1, from
\* position i with the flag `check`: a matching link assigns true, a
\* non-matching link assigns nothing.
RECURSIVE scan(_, _, _)
scan(c, i, check) ==
    IF i > Len(c) - 1 THEN check
    ELSE LET hash0 == hash(c[i])
         IN  scan(c, i + 1, IF hash0 = c[i + 1].parent THEN TRUE ELSE check)

\* verify_sub_chain with the first header's parent never compared.
verify_sub_chain_no_parent(h, c, overflow_checks) ==
    IF Len(c) > 0
    THEN IF overflow_checks /\ c[1].height = 0
         THEN Panicked
         ELSE Returned(h.height = wrapping_sub(c[1].height, 1))
    ELSE Returned(TRUE)

\* verify_sub_chain with the flag initialised to false.
verify_sub_chain_flag_false(h, c, overflow_checks) ==
    IF Len(c) > 0
    THEN IF overflow_checks /\ sub_overflows(h, c)
         THEN Panicked
         ELSE Returned(/\ hash(h) = c[1].parent
                       /\ h.height = wrapping_sub(c[1].height, 1))
    ELSE Returned(FALSE)

\* Header::verify_sub_chain.  overflow_checks: the build panics on integer
\* overflow (debug profile) instead of wrapping (release profile).
verify_sub_chain(h, c, overflow_checks) ==
    LET parent_block == h
        genesis_hash == hash(parent_block)
    IN  IF Len(c) > 0
        THEN IF overflow_checks /\ sub_overflows(h, c)
             THEN Panicked
             ELSE LET check == /\ genesis_hash = c[1].parent
                               /\ parent_block.height = wrapping_sub(c[1].height, 1)
                  IN  IF check = TRUE
                      THEN Returned(scan(c, 1, check))
                      ELSE Returned(check)
        ELSE Returned(TRUE)

\* The loop body shared by both builders: push a header linked to the last.
push_linked(v) ==
    LET length == Len(v)
        parent == hash(v[length])
        height == (v[length].height + 1) % Modulus
    IN  Append(v, [v[length] EXCEPT !.parent = parent, !.height = height])

RECURSIVE push_range(_, _, _)
\* for i in lo..hi { push_linked }
push_range(v, lo, hi) ==
    IF lo >= hi THEN v ELSE push_range(push_linked(v), lo + 1, hi)

\* build_valid_chain_length_5
build_valid_chain_length_5 ==
    LET new_header == genesis
        first_child == child(new_header)
    IN  push_range(<<new_header, first_child>>, 2, 5)

\* build_an_invalid_chain
build_an_invalid_chain ==
    LET new_header == genesis
        first_child == child(new_header)
        corrupted == [first_child EXCEPT !.parent = hash(first_child)]
    IN  push_range(<<new_header, corrupted>>, 2, 3)

----------------------------------------------------------------------------
\* Inputs.

\* Heights of the headers handed in: small ones and the largest u64.
HeightVals == {0, 1, 2, U64Max}

TrustedHeaders ==
    {Header(p, n) : p \in {HashDefault, hash(genesis)}, n \in HeightVals}

\* Headers that may follow prev in a slice: linked to prev, linked to
\* genesis, or carrying the sentinel, at any of the heights.
Followers(prev) ==
    {Header(p, n) : p \in {hash(prev), hash(genesis), HashDefault},
                    n \in HeightVals}

RECURSIVE Slices(_, _)
\* Slices of at most n headers following prev.
Slices(prev, n) ==
    IF n = 0 THEN {<<>>}
    ELSE {<<>>} \cup
         UNION {{<<f>> \o s : s \in Slices(f, n - 1)} : f \in Followers(prev)}

Init ==
    /\ self \in TrustedHeaders
    /\ chain \in Slices(self, MaxLen)
    /\ pc = "start"
    /\ out = <<>>
    /\ ret = Returned(TRUE)

\* A call of Header::genesis(); it takes no slice.
CallGenesis ==
    /\ pc = "start"
    /\ chain = <<>>
    /\ pc' = "genesis"
    /\ out' = <<genesis>>
    /\ UNCHANGED <<self, chain, ret>>

\* A call of self.child(); it takes no slice.
CallChild ==
    /\ pc = "start"
    /\ chain = <<>>
    /\ pc' = "child"
    /\ out' = <<child(self)>>
    /\ UNCHANGED <<self, chain, ret>>

\* A call of self.verify_sub_chain(&chain) in either build profile.
CallVerify ==
    /\ pc = "start"
    /\ \E overflow_checks \in BOOLEAN :
          ret' = verify_sub_chain(self, chain, overflow_checks)
    /\ pc' = "verify"
    /\ UNCHANGED <<self, chain, out>>

\* Test bc_1_verify_chain_length_five: build the chain, verify its tail from
\* its head.
TestChainLengthFive ==
    /\ pc = "start"
    /\ chain = <<>>
    /\ \E overflow_checks \in BOOLEAN :
          LET v == build_valid_chain_length_5
              r == verify_sub_chain(v[1], Tail(v), overflow_checks)
          IN  /\ out' = v
              /\ ret' = r
    /\ pc' = "chain_length_five"
    /\ UNCHANGED <<self, chain>>

\* Test bc_1_invalid_chain_is_really_invalid.
TestInvalidChain ==
    /\ pc = "start"
    /\ chain = <<>>
    /\ \E overflow_checks \in BOOLEAN :
          LET v == build_an_invalid_chain
              r == verify_sub_chain(v[1], Tail(v), overflow_checks)
          IN  /\ out' = v
              /\ ret' = r
    /\ pc' = "invalid_chain"
    /\ UNCHANGED <<self, chain>>

Next ==
    \/ CallGenesis
    \/ CallChild
    \/ CallVerify
    \/ TestChainLengthFive
    \/ TestInvalidChain

Spec == Init /\ [][Next]_vars

TypeOK ==
    /\ pc \in {"start", "genesis", "child", "verify",
               "chain_length_five", "invalid_chain"}
    /\ ret \in [panicked : BOOLEAN, check : BOOLEAN]

----------------------------------------------------------------------------
\* Properties.

\* The call of verify_sub_chain has returned (it did not panic).
VerifyReturned == pc = "verify" /\ ~ret.panicked

\* Some consecutive pair of the slice c is not hash-linked.
BrokenLink(c) ==
    \E i \in 1..(Len(c) - 1) : hash(c[i]) # c[i + 1].parent

\* Some consecutive pair of the slice c does not step the height by one.
BrokenHeight(c) ==
    \E i \in 1..(Len(c) - 1) : c[i + 1].height # c[i].height + 1

\* v is a valid chain: every header is linked to its predecessor and one
\* higher.
ValidChain(v) ==
    \A i \in 1..(Len(v) - 1) :
        /\ v[i + 1].parent = hash(v[i])
        /\ v[i + 1].height = v[i].height + 1

RECURSIVE FoldVerify(_, _)
\* verify(t, [c1]) AND verify(c1, [c2]) AND ..., one header at a time.
FoldVerify(t, c) ==
    IF c = <<>> THEN TRUE
    ELSE LET r == verify_sub_chain(t, <<Head(c)>>, FALSE)
         IN  r.check /\ FoldVerify(Head(c), Tail(c))

\* C1: whenever verify_sub_chain returns on a slice of two or more headers
\* in which some consecutive pair is not hash-linked, it returns false.
C1_BrokenLinkIsRejected ==
    (VerifyReturned /\ Len(chain) >= 2 /\ BrokenLink(chain))
        => ret.check = FALSE

\* C2: whenever verify_sub_chain returns on a slice of two or more headers
\* in which some consecutive pair does not step the height by one, it
\* returns false, also when every hash link is correct.
C2_BrokenHeightIsRejected ==
    (VerifyReturned /\ Len(chain) >= 2 /\ BrokenHeight(chain))
        => ret.check = FALSE

\* C3: child applied to any header h (below the largest height) returns a
\* header one higher than h whose parent is hash(h), and leaves h unchanged.
C3_ChildExtendsItsReceiver ==
    (pc = "child" /\ self.height < U64Max)
        => /\ out[1].height = self.height + 1
           /\ out[1].parent = hash(self)

\* C4: for any header h, verify(h, [child(h)]) and
\* verify(h, [child(h), child(child(h))]) are true, and the accepted
\* two-step chain is linked and stepped in height.
C4_ChildrenVerify ==
    (/\ pc = "verify"
     /\ \/ chain = <<child(self)>>
        \/ chain = <<child(self), child(child(self))>>)
        => /\ ret = Returned(TRUE)
           /\ ValidChain(chain)

\* C5: on a non-empty slice, whole-sequence verification returns what
\* folding single-step verification down the slice returns.
C5_WholeEqualsFold ==
    (VerifyReturned /\ chain # <<>>)
        => ret.check = FoldVerify(self, chain)

\* C6: verify_sub_chain never panics: every call returns a boolean.
C6_VerifyNeverPanics ==
    pc = "verify" => ~ret.panicked

\* C7: on a non-empty slice whose first header has a parent other than
\* hash(self) or a height other than self.height + 1, verify_sub_chain
\* returns false.
C7_FirstHeaderIsChecked ==
    (/\ pc = "verify"
     /\ chain # <<>>
     /\ \/ chain[1].parent # hash(self)
        \/ chain[1].height # self.height + 1)
        => ret = Returned(FALSE)

\* C8: build_an_invalid_chain returns at least three headers starting with
\* genesis, whose second block carries its own hash as parent while the
\* third is linked normally, and the chain verifies as false from genesis.
C8_InvalidChainIsRejected ==
    pc = "invalid_chain"
        => /\ ret = Returned(FALSE)
           /\ Len(out) >= 3
           /\ out[1] = genesis
           /\ out[2].parent = hash([out[2] EXCEPT !.parent = hash(out[1])])
           /\ out[2].parent # hash(out[1])
           /\ ValidChain(Tail(out))

C8_Witness ==
    /\ pc = "invalid_chain"
    /\ Len(out) = 3
    /\ out[2].height = 1
    /\ ret = Returned(FALSE)

\* C9: the five-header chain of build_valid_chain_length_5 is genesis plus
\* four children built entirely via child (each header is child of its
\* predecessor), it is a valid chain (genesis first, every later header
\* linked to and one higher than its predecessor), and its tail verifies as
\* true from its head.
C9_ChildBuiltChainOfFiveVerifies ==
    pc = "chain_length_five"
        => /\ ret = Returned(TRUE)
           /\ Len(out) = 5
           /\ out[1].height = 0
           /\ out[1].parent = HashDefault
           /\ \A i \in 1..(Len(out) - 1) : out[i + 1] = child(out[i])
           /\ ValidChain(out)

\* C10: verify_sub_chain on the empty slice returns true for any receiver.
C10_EmptySliceVerifies ==
    (pc = "verify" /\ chain = <<>>) => ret = Returned(TRUE)

C10_Witness ==
    /\ pc = "verify"
    /\ chain = <<>>
    /\ self.height = U64Max
    /\ self.parent # HashDefault
    /\ ret = Returned(TRUE)
====
